---- MODULE Spec2Model ----
(***************************************************************************)
(* Model of wrapt_timeout_decorator/wrap_function_multiprocess.py:         *)
(* class Timeout (the parent side: __call__, wait_until_process_started,   *)
(* value, cancel) and _target (the child side), which talk over a one-way  *)
(* multiprocessing Pipe.  Time is discrete; one tick is one second, the    *)
(* unit of dec_timeout and of join(timeout=1.0).  A step that is enabled   *)
(* and does not wait for time is taken before the clock advances.          *)
(* Spec follows one calling thread, SpecCancel adds a call of cancel()     *)
(* from outside, SpecThreads follows two threads that call one object.     *)
(***************************************************************************)
EXTENDS Integers, Sequences, FiniteSets, TLC

\* ------------------------------------------------------------------ bounds
MaxBudget == 2
MaxStartDelay == 2
MaxDuration == 2
MaxLatency == 2
MaxOrphans == 1
MaxCalls == 2

\* ------------------------------------------------------- program constants
\* join(timeout=1.0) in cancel and in value
JoinTimeout == 1
\* dec_timeout = None: poll(None) waits without a time limit
NoBudget == -1

VARIABLES
    dec_timeout,        \* self.dec_timeout
    dec_hard_timeout,   \* self.dec_hard_timeout
    timeout_exception,  \* self.timeout_exception
    exception_message,  \* self.exception_message
    pc,                 \* where the calling thread is inside __call__
    outcome,            \* what the current invocation gave its caller
    parent_conn,        \* self.__parent_conn: the read end in the parent
    child_conn,         \* self.__child_conn: the parent's handle on the write end
    child_end,          \* the child's own copy of the write end
    pipe,               \* pickled messages written and not yet received
    process,            \* self.__process: life cycle of the child
    daemon,             \* self.__process.daemon
    function,           \* what self.function does in this invocation
    startDelay,         \* seconds the child needs to get from start() to _target
    duration,           \* seconds the function runs before it returns or raises
    startLeft,          \* seconds until the child reaches _target
    compLeft,           \* seconds until the function returns or raises
    dieLeft,            \* seconds until an exiting child is gone
    pollLeft,           \* seconds left of poll(self.dec_timeout)
    joinLeft,           \* seconds left of join(timeout=1.0)
    recvd,              \* (exception_occured, result) unpacked in value
    sent,               \* everything the child has written to the pipe (history)
    consumed,           \* every message the parent has received (history)
    polled,             \* result of poll in this invocation (history)
    terminated,         \* terminate() was called on the child (history)
    joinTimedOut,       \* join returned with the child still alive (history)
    fnStarted,          \* the child got as far as calling the function
    orphans,            \* children of earlier invocations not yet reaped
    env,                \* the three tests of the daemon decision, until start()
    pipeId,             \* which Pipe() the endpoints in self belong to
    procId,             \* which Process(...) self.__process is
    tpc,                \* two threads: where each is inside __call__
    selfPipe,           \* two threads: the Pipe() self.__parent_conn/__child_conn refer to
    selfProc,           \* two threads: the Process self.__process refers to
    own,                \* two threads: the pipe and the process each one created
    held,               \* two threads: the objects each one's blocking call works on
    used,               \* two threads: what each polled, read, joined, terminated, closed
    tout,               \* two threads: what each invocation gave its caller
    trecvd,             \* two threads: the pair each unpacked in value
    chans,              \* two threads: per pipe, messages in flight and the read end
    procs               \* two threads: per child, its state, its write end, its caller

cfgVars == <<dec_timeout, dec_hard_timeout, timeout_exception, exception_message>>
envVars == <<function, startDelay, duration, daemon>>
connVars == <<parent_conn, child_conn>>
timerVars == <<startLeft, compLeft, dieLeft, pollLeft, joinLeft>>
histVars == <<sent, consumed, polled, terminated, joinTimedOut, fnStarted>>
idVars == <<env, pipeId, procId>>
soloVars == <<cfgVars, envVars, connVars, timerVars, histVars, idVars,
              pc, outcome, child_end, pipe, process, recvd, orphans>>
thrVars == <<tpc, selfPipe, selfProc, own, held, used, tout, trecvd, chans, procs>>
vars == <<soloVars, thrVars>>

\* ------------------------------------------------------------------ values
\* A Python object that crosses the pipe: a return value or an exception.
\* tb says whether the object still carries its traceback.
Value(cls, arg) == [ty |-> "value", cls |-> cls, arg |-> arg, tb |-> FALSE]
Exc(cls, arg) == [ty |-> "exception", cls |-> cls, arg |-> arg, tb |-> TRUE]
NoneValue == Value("NoneType", "None")

\* Objects the pickler refuses (a lock, an exception that holds a lock).
Unpicklable == {"lock", "LockError"}
Picklable(obj) == obj.cls \notin Unpicklable

\* send pickles, recv unpickles: what travels is a byte string, and the
\* traceback of an exception does not survive the trip.
Dumps(msg) == [pickled |-> [msg EXCEPT !.val.tb = FALSE]]
Loads(bytes) == bytes.pickled

\* The two kinds of message _target writes.
StartedMsg == [kind |-> "started", exc |-> FALSE, val |-> Value("str", "started")]
OutcomeMsg(exception_occured, result) ==
    [kind |-> "outcome", exc |-> exception_occured, val |-> result]
NoMsg == [kind |-> "none", exc |-> FALSE, val |-> NoneValue]

\* What the caller of __call__ gets.
NoOutcome == [tag |-> "none", val |-> NoneValue]
Returned(v) == [tag |-> "returned", val |-> v]
Raised(e) == [tag |-> "raised", val |-> e]
Failed(cls) == [tag |-> cls, val |-> Exc(cls, "")]

\* ------------------------------------------------------------------ inputs
Budgets == {NoBudget} \cup (0..MaxBudget)
\* (timeout_exception, exception_message) pairs given to the constructor
ExcConfigs == {<<"TimeoutError", "timed out">>, <<"MyTimeout", "too slow">>}
\* What the wrapped function does: return a value, raise, or never come back.
Functions ==
    [type : {"return"}, val : {Value("str", "ok"), Value("lock", "")}]
    \cup [type : {"raise"}, val : {Exc("ValueError", "bad"), Exc("LockError", "bad")}]
    \cup [type : {"hang"}, val : {NoneValue}]
NoFunction == [type |-> "hang", val |-> NoneValue]
\* How long a call of the function may run.
Durations(f) == IF f.type # "hang" /\ f.val.cls \in {"str", "ValueError"}
                   THEN 0..MaxDuration ELSE {0}
\* (sys.version_info < (3, 0), is_system_windows(), is_in_main_thread())
Envs == BOOLEAN \X BOOLEAN \X BOOLEAN
\* The tests have not been evaluated, or their values are no longer held.
NoEnv == <<>>

Alive == {"starting", "computing", "exiting", "terminating"}
CancelPcs == {"cancel", "cancel_join", "cancel_close", "cancel_raise"}
ValuePcs == {"value_recv", "value_join", "value_close", "value_result"}

\* Some handle on the write end is still open, so the reader sees no EOF.
WriterOpen == child_conn = "open" \/ child_end = "open"

\* The threads that call the same Timeout object, and the pipes and
\* processes they can create (each calls once).
Threads == {"A", "B"}
ObjIds == 1..Cardinality(Threads)
NoObj == 0
NoChan == [made |-> FALSE, buf |-> <<>>, readOpen |-> FALSE]
NoProc == [made |-> FALSE, state |-> "none", conn |-> NoObj, caller |-> "", step |-> "none"]
\* Pipe() and Process(...) return an object that did not exist before.
NewObj(tab) == Cardinality({i \in ObjIds : tab[i].made}) + 1

\* Before any thread has called: the attributes are None (lines 23-25).
ThreadsInit ==
    /\ tpc = [t \in Threads |-> "idle"]
    /\ selfPipe = NoObj
    /\ selfProc = NoObj
    /\ own = [t \in Threads |-> [pipe |-> NoObj, proc |-> NoObj]]
    /\ held = [t \in Threads |-> [pipe |-> NoObj, proc |-> NoObj]]
    /\ used = [t \in Threads |-> {}]
    /\ tout = [t \in Threads |-> NoOutcome]
    /\ trecvd = [t \in Threads |-> NoMsg]
    /\ chans = [i \in ObjIds |-> NoChan]
    /\ procs = [i \in ObjIds |-> NoProc]

Init ==
    /\ ThreadsInit
    /\ dec_timeout \in Budgets
    /\ dec_hard_timeout \in BOOLEAN
    /\ \E c \in ExcConfigs : timeout_exception = c[1] /\ exception_message = c[2]
    /\ pc = "idle"
    /\ outcome = NoOutcome
    /\ parent_conn = "none"
    /\ child_conn = "none"
    /\ child_end = "none"
    /\ pipe = <<>>
    /\ process = "none"
    /\ daemon = FALSE
    /\ function = NoFunction
    /\ startDelay = 0
    /\ duration = 0
    /\ startLeft = 0 /\ compLeft = 0 /\ dieLeft = 0 /\ pollLeft = 0 /\ joinLeft = 0
    /\ recvd = NoMsg
    /\ sent = <<>>
    /\ consumed = <<>>
    /\ polled = "none"
    /\ terminated = FALSE
    /\ joinTimedOut = FALSE
    /\ fnStarted = FALSE
    /\ orphans = 0
    /\ env = NoEnv
    /\ pipeId = 0
    /\ procId = 0

\* ------------------------------------------------------------- parent side
\* Mutant of DaemonFlag: the test for the main thread is left out.
DaemonFlag_IgnoresThread(py_lt_3, is_windows, in_main_thread) ==
    ~(py_lt_3 /\ is_windows)

\* The daemon flag chosen before start().
DaemonFlag(py_lt_3, is_windows, in_main_thread) ==
    ~(py_lt_3 /\ is_windows /\ ~in_main_thread)

\* The time poll(self.dec_timeout) is willing to wait.
PollTimer(budget) == IF budget = NoBudget THEN 0 ELSE budget

\* Mutant of NewId: the object made by the earlier invocation is used again.
NewId_Reused(id) == id

\* Pipe() and Process(...) return an object that did not exist before.
NewId(id) == id + 1

\* __call__ up to Process(...): the new Process object is not a daemon
\* yet.  The child of the invocation before, if still alive, is no longer
\* referenced.
Call ==
    /\ pc \in {"idle", "done"}
    /\ pipeId < MaxCalls
    /\ orphans + (IF process \in Alive THEN 1 ELSE 0) <= MaxOrphans
    /\ \E f \in Functions, sd \in 0..MaxStartDelay :
        /\ function' = f
        /\ startDelay' = sd
        /\ startLeft' = sd
    /\ duration' = 0
    /\ env' = NoEnv
    /\ daemon' = FALSE
    /\ pipeId' = NewId(pipeId)
    /\ procId' = NewId(procId)
    /\ parent_conn' = "open"
    /\ child_conn' = "open"
    /\ child_end' = "open"
    /\ pipe' = <<>>
    /\ orphans' = orphans + (IF process \in Alive THEN 1 ELSE 0)
    /\ process' = "created"
    /\ outcome' = NoOutcome
    /\ recvd' = NoMsg
    /\ sent' = <<>> /\ consumed' = <<>> /\ polled' = "none"
    /\ terminated' = FALSE /\ joinTimedOut' = FALSE /\ fnStarted' = FALSE
    /\ compLeft' = 0 /\ dieLeft' = 0 /\ joinLeft' = 0
    /\ pollLeft' = PollTimer(dec_timeout)
    /\ pc' = "daemon"
    /\ UNCHANGED <<cfgVars, thrVars>>

\* __call__: the three tests are evaluated and self.__process.daemon is set.
SetDaemon ==
    /\ pc = "daemon"
    /\ env' \in Envs
    /\ daemon' = DaemonFlag(env'[1], env'[2], env'[3])
    /\ pc' = "start"
    /\ UNCHANGED <<cfgVars, thrVars, connVars, timerVars, histVars, pipeId, procId, orphans,
                   function, startDelay, duration, outcome, child_end, pipe, process, recvd>>

\* self.__process.start(), which first reaps the children of earlier
\* invocations that have exited; then the branch on dec_hard_timeout.
Start ==
    /\ pc = "start"
    /\ process' = "starting"
    /\ \E gone \in 0..orphans : orphans' = orphans - gone
    /\ env' = NoEnv
    /\ pc' = IF dec_hard_timeout THEN "poll" ELSE "wait_started"
    /\ UNCHANGED <<cfgVars, thrVars, envVars, connVars, timerVars, histVars, pipeId, procId,
                   outcome, child_end, pipe, recvd>>

\* wait_until_process_started: a recv() whose result is thrown away.
WaitUntilProcessStarted ==
    /\ pc = "wait_started"
    /\ pipe # <<>> \/ ~WriterOpen
    /\ IF pipe # <<>>
          THEN /\ consumed' = Append(consumed, Loads(Head(pipe)))
               /\ pipe' = Tail(pipe)
               /\ pc' = "poll"
               /\ outcome' = outcome
          ELSE /\ pc' = "done"
               /\ outcome' = Failed("EOFError")
               /\ UNCHANGED <<consumed, pipe>>
    /\ UNCHANGED <<cfgVars, thrVars, idVars, envVars, connVars, timerVars, orphans, child_end, process, recvd,
                   sent, polled, terminated, joinTimedOut, fnStarted>>

\* poll(self.dec_timeout) is true: something can be read (a message or EOF).
PollReady ==
    /\ pc = "poll"
    /\ pipe # <<>> \/ ~WriterOpen
    /\ pc' = "value_recv"
    /\ polled' = "ready"
    /\ UNCHANGED <<cfgVars, thrVars, idVars, envVars, connVars, timerVars, orphans, outcome,
                   child_end, pipe, process, recvd,
                   sent, consumed, terminated, joinTimedOut, fnStarted>>

\* Mutant of PollExpired: the result of poll is ignored and value is read.
PollExpired_ReadsValue ==
    /\ pc = "poll"
    /\ pipe = <<>> /\ WriterOpen
    /\ dec_timeout # NoBudget
    /\ pollLeft = 0
    /\ pc' = "value_recv"
    /\ polled' = "expired"
    /\ UNCHANGED <<cfgVars, thrVars, idVars, envVars, connVars, timerVars, orphans, outcome,
                   child_end, pipe, process, recvd,
                   sent, consumed, terminated, joinTimedOut, fnStarted>>

\* poll(self.dec_timeout) is false: the time is up and nothing can be read.
PollExpired ==
    /\ pc = "poll"
    /\ pipe = <<>> /\ WriterOpen
    /\ dec_timeout # NoBudget
    /\ pollLeft = 0
    /\ pc' = "cancel"
    /\ polled' = "expired"
    /\ UNCHANGED <<cfgVars, thrVars, idVars, envVars, connVars, timerVars, orphans, outcome,
                   child_end, pipe, process, recvd,
                   sent, consumed, terminated, joinTimedOut, fnStarted>>

\* value: exception_occured, result = self.__parent_conn.recv()
ValueRecv ==
    /\ pc = "value_recv"
    /\ pipe # <<>> \/ ~WriterOpen
    /\ IF pipe # <<>>
          THEN /\ consumed' = Append(consumed, Loads(Head(pipe)))
               /\ pipe' = Tail(pipe)
               /\ IF Loads(Head(pipe)).kind = "outcome"
                     THEN /\ recvd' = Loads(Head(pipe))
                          /\ pc' = "value_join"
                          /\ joinLeft' = JoinTimeout
                          /\ outcome' = outcome
                     ELSE \* 'started' does not unpack into two names
                          /\ pc' = "done"
                          /\ outcome' = Failed("ValueError")
                          /\ UNCHANGED <<recvd, joinLeft>>
          ELSE /\ pc' = "done"
               /\ outcome' = Failed("EOFError")
               /\ UNCHANGED <<consumed, pipe, recvd, joinLeft>>
    /\ UNCHANGED <<cfgVars, thrVars, idVars, envVars, connVars, orphans, child_end, process,
                   startLeft, compLeft, dieLeft, pollLeft,
                   sent, polled, terminated, joinTimedOut, fnStarted>>

\* join(timeout=1.0): returns when the child is gone (and reaps it) or when
\* the second is over.
Join(next) ==
    /\ process \notin Alive \/ joinLeft = 0
    /\ process' = IF process = "zombie" THEN "reaped" ELSE process
    /\ joinTimedOut' = (process \in Alive)
    /\ pc' = next
    /\ UNCHANGED <<cfgVars, thrVars, idVars, envVars, connVars, timerVars, orphans, outcome,
                   child_end, pipe, recvd, sent, consumed, polled, terminated, fnStarted>>

\* value: self.__process.join(timeout=1.0)
ValueJoin == pc = "value_join" /\ Join("value_close")

\* self.__parent_conn.close()
Close(next) ==
    /\ parent_conn' = "closed"
    /\ pc' = next
    /\ UNCHANGED <<cfgVars, thrVars, idVars, envVars, child_conn, timerVars, histVars, orphans,
                   outcome, child_end, pipe, process, recvd>>

\* Mutant of ValueClose: value returns without closing the read end.
ValueClose_Skipped ==
    /\ pc = "value_close"
    /\ pc' = "value_result"
    /\ UNCHANGED <<cfgVars, thrVars, idVars, envVars, connVars, timerVars, histVars, orphans,
                   outcome, child_end, pipe, process, recvd>>

\* value: self.__parent_conn.close()
ValueClose == pc = "value_close" /\ Close("value_result")

\* Mutant of ValueOutcome: the flag is read the wrong way round.
ValueOutcome_FlagInverted(msg) == IF msg.exc THEN Returned(msg.val) ELSE Raised(msg.val)

\* value: raise result if exception_occured else return result
ValueOutcome(msg) == IF msg.exc THEN Raised(msg.val) ELSE Returned(msg.val)

ValueResult ==
    /\ pc = "value_result"
    /\ outcome' = ValueOutcome(recvd)
    /\ pc' = "done"
    /\ UNCHANGED <<cfgVars, thrVars, idVars, envVars, connVars, timerVars, histVars, orphans,
                   child_end, pipe, process, recvd>>

\* cancel: if self.__process.is_alive(): self.__process.terminate()
\* is_alive() polls the child and so reaps it when it has already exited.
CancelTerminate ==
    /\ pc = "cancel"
    /\ IF process \in Alive
          THEN /\ process' = "terminating"
               /\ IF process = "exiting"
                     THEN dieLeft' = dieLeft
                     ELSE dieLeft' \in 0..MaxLatency
               /\ terminated' = TRUE
          ELSE /\ process' = IF process = "zombie" THEN "reaped" ELSE process
               /\ UNCHANGED <<dieLeft, terminated>>
    /\ pc' = "cancel_join"
    /\ joinLeft' = JoinTimeout
    /\ UNCHANGED <<cfgVars, thrVars, idVars, envVars, connVars, orphans, outcome, child_end, pipe,
                   recvd, startLeft, compLeft, pollLeft,
                   sent, consumed, polled, joinTimedOut, fnStarted>>

\* Mutant of CancelJoin: cancel reads what is left in the pipe after join.
CancelJoin_Drains ==
    /\ pc = "cancel_join"
    /\ process \notin Alive \/ joinLeft = 0
    /\ process' = IF process = "zombie" THEN "reaped" ELSE process
    /\ joinTimedOut' = (process \in Alive)
    /\ consumed' = consumed \o [i \in 1..Len(pipe) |-> Loads(pipe[i])]
    /\ pipe' = <<>>
    /\ pc' = "cancel_close"
    /\ UNCHANGED <<cfgVars, thrVars, idVars, envVars, connVars, timerVars, orphans, outcome,
                   child_end, recvd, sent, polled, terminated, fnStarted>>

\* cancel: self.__process.join(timeout=1.0)
CancelJoin == pc = "cancel_join" /\ Join("cancel_close")

\* Mutant of CancelClose: cancel leaves the read end open.
CancelClose_Skipped ==
    /\ pc = "cancel_close"
    /\ pc' = "cancel_raise"
    /\ UNCHANGED <<cfgVars, thrVars, idVars, envVars, connVars, timerVars, histVars, orphans,
                   outcome, child_end, pipe, process, recvd>>

\* cancel: self.__parent_conn.close()
CancelClose == pc = "cancel_close" /\ Close("cancel_raise")

\* wrap_helper.raise_exception(exception, exception_message): raises the
\* configured exception with the configured message.
raise_exception(exception, message) == [tag |-> "timeout", val |-> Exc(exception, message)]

\* cancel: raise_exception(self.timeout_exception, self.exception_message)
CancelRaise ==
    /\ pc = "cancel_raise"
    /\ outcome' = raise_exception(timeout_exception, exception_message)
    /\ pc' = "done"
    /\ UNCHANGED <<cfgVars, thrVars, idVars, envVars, connVars, timerVars, histVars, orphans,
                   child_end, pipe, process, recvd>>

\* -------------------------------------------------------------- child side
\* Mutant of TargetStartMsgs: 'started' is sent whatever the flag says.
TargetStartMsgs_Always(hard) == <<Dumps(StartedMsg)>>

\* Mutant of TargetStartMsgs: 'started' is never sent.
TargetStartMsgs_Never(hard) == <<>>

\* _target up to the call of the function: send 'started' unless hard.
TargetStartMsgs(hard) == IF hard THEN <<>> ELSE <<Dumps(StartedMsg)>>

TargetStart ==
    /\ process = "starting"
    /\ startLeft = 0
    /\ pipe' = pipe \o TargetStartMsgs(dec_hard_timeout)
    /\ sent' = sent \o TargetStartMsgs(dec_hard_timeout)
    /\ process' = "computing"
    /\ \E d \in Durations(function) : duration' = d /\ compLeft' = d
    /\ fnStarted' = TRUE
    /\ UNCHANGED <<cfgVars, thrVars, idVars, function, startDelay, daemon, connVars, orphans, pc, outcome, child_end,
                   recvd, startLeft, dieLeft, pollLeft, joinLeft,
                   consumed, polled, terminated, joinTimedOut>>

\* Mutant of TargetOutcomeMsgs: the handler forgets to set the flag.
TargetOutcomeMsgs_FlagNotSet(f) ==
    IF Picklable(f.val) THEN <<Dumps(OutcomeMsg(FALSE, f.val))>> ELSE <<>>

\* What _target writes once the function has returned or raised.  send
\* pickles before it writes: a result that cannot be pickled raises inside
\* the try, and an exception that cannot be pickled escapes the handler.
TargetOutcomeMsgs(f) ==
    IF f.type = "return"
       THEN IF Picklable(f.val)
               THEN <<Dumps(OutcomeMsg(FALSE, f.val))>>
               ELSE <<Dumps(OutcomeMsg(TRUE, Exc("PicklingError", f.val.cls)))>>
       ELSE IF Picklable(f.val)
               THEN <<Dumps(OutcomeMsg(TRUE, f.val))>>
               ELSE <<>>

\* _target from the return of the function to child_conn.close().
TargetFinish ==
    /\ process = "computing"
    /\ function.type # "hang"
    /\ compLeft = 0
    /\ pipe' = pipe \o TargetOutcomeMsgs(function)
    /\ sent' = sent \o TargetOutcomeMsgs(function)
    /\ child_end' = "closed"
    /\ process' = "exiting"
    /\ dieLeft' \in 0..MaxLatency
    /\ UNCHANGED <<cfgVars, thrVars, idVars, envVars, connVars, orphans, pc, outcome, recvd,
                   startLeft, compLeft, pollLeft, joinLeft,
                   consumed, polled, terminated, joinTimedOut, fnStarted>>

\* The child process is gone; the system closes whatever it had open.
ProcessExit ==
    /\ process \in {"exiting", "terminating"}
    /\ dieLeft = 0
    /\ process' = "zombie"
    /\ child_end' = "closed"
    /\ UNCHANGED <<cfgVars, thrVars, idVars, envVars, connVars, timerVars, histVars, orphans, pc,
                   outcome, pipe, recvd>>

\* The child is killed from outside, or crashes, before it reports.
ExternalKill ==
    /\ process \in {"starting", "computing"}
    /\ process' = "zombie"
    /\ child_end' = "closed"
    /\ UNCHANGED <<cfgVars, thrVars, idVars, envVars, connVars, timerVars, histVars, orphans, pc,
                   outcome, pipe, recvd>>

\* -------------------------------------------------------------------- time
\* The parent is in a wait that only a message or the clock can end.
ParentWaits ==
    \/ pc \in {"idle", "done"}
    \/ pc = "wait_started" /\ pipe = <<>> /\ WriterOpen
    \/ pc = "poll" /\ pipe = <<>> /\ WriterOpen /\ (dec_timeout = NoBudget \/ pollLeft > 0)
    \/ pc \in {"value_join", "cancel_join"} /\ process \in Alive /\ joinLeft > 0

\* The child is busy with something that takes time.
ChildWaits ==
    \/ process \notin Alive
    \/ process = "starting" /\ startLeft > 0
    \/ process = "computing" /\ (function.type = "hang" \/ compLeft > 0)
    \/ process \in {"exiting", "terminating"} /\ dieLeft > 0

Dec(n) == IF n > 0 THEN n - 1 ELSE 0

\* Mutant of Polling: the budget does not run while the child starts up.
Polling_NotDuringStartup == pc = "poll" /\ process # "starting"

\* Mutant of Polling: in soft mode the budget runs from start() on.
Polling_FromSpawn == pc \in {"wait_started", "poll"}

\* The budget runs while the parent is inside poll(self.dec_timeout), which
\* in soft mode is entered only after wait_until_process_started returned.
Polling == pc = "poll"

\* One second passes.
Tick ==
    /\ ParentWaits
    /\ ChildWaits
    /\ startLeft' = IF process = "starting" THEN Dec(startLeft) ELSE startLeft
    /\ compLeft' = IF process = "computing" /\ function.type # "hang"
                      THEN Dec(compLeft) ELSE compLeft
    /\ dieLeft' = IF process \in {"exiting", "terminating"} THEN Dec(dieLeft) ELSE dieLeft
    /\ pollLeft' = IF Polling THEN Dec(pollLeft) ELSE pollLeft
    /\ joinLeft' = IF pc \in {"value_join", "cancel_join"} THEN Dec(joinLeft) ELSE joinLeft
    /\ UNCHANGED <<cfgVars, thrVars, idVars, envVars, connVars, histVars, orphans, pc, outcome,
                   child_end, pipe, process, recvd>>

Next ==
    \/ Call
    \/ SetDaemon
    \/ Start
    \/ WaitUntilProcessStarted
    \/ PollReady
    \/ PollExpired
    \/ ValueRecv
    \/ ValueJoin
    \/ ValueClose
    \/ ValueResult
    \/ CancelTerminate
    \/ CancelJoin
    \/ CancelClose
    \/ CancelRaise
    \/ TargetStart
    \/ TargetFinish
    \/ ProcessExit
    \/ ExternalKill
    \/ Tick

Spec == Init /\ [][Next]_vars

\* cancel() is a public method: another thread may call it while the calling
\* thread waits in recv() or in poll().  The model follows the thread that
\* runs cancel().
CancelCalled ==
    /\ pc \in {"wait_started", "poll"}
    /\ pc' = "cancel"
    /\ UNCHANGED <<cfgVars, thrVars, idVars, envVars, connVars, timerVars, histVars, orphans, outcome,
                   child_end, pipe, process, recvd>>

NextCancel == Next \/ CancelCalled

SpecCancel == Init /\ [][NextCancel]_vars

TypeOK ==
    /\ dec_timeout \in Budgets
    /\ pc \in {"idle", "daemon", "start", "wait_started", "poll", "done"} \cup CancelPcs \cup ValuePcs
    /\ process \in {"none", "created", "zombie", "reaped"} \cup Alive
    /\ env \in Envs \cup {NoEnv}
    /\ pipeId \in 0..MaxCalls /\ procId \in 0..MaxCalls
    /\ orphans \in 0..MaxOrphans
    /\ Len(pipe) <= 2

\* ----------------------------------------- two threads, one Timeout object
\* Two threads call the same Timeout object once each.  The attributes
\* self.__parent_conn, self.__child_conn and self.__process are shared; a
\* blocking call (recv, poll, join) works on the object the attribute
\* referred to when the call began.  Time is left out: a poll with a budget
\* may run out whenever nothing can be read.
Goto(t, label) == tpc' = [tpc EXCEPT ![t] = label]
Use(t, objs) == used' = [used EXCEPT ![t] = @ \cup objs]
Fail(t, cls) == tout' = [tout EXCEPT ![t] = Failed(cls)]

\* self.__parent_conn, self.__child_conn = Pipe(duplex=False)
T_Pipe(t) ==
    /\ tpc[t] = "idle"
    /\ LET id == NewObj(chans) IN
        /\ chans' = [chans EXCEPT ![id] = [made |-> TRUE, buf |-> <<>>, readOpen |-> TRUE]]
        /\ selfPipe' = id
        /\ own' = [own EXCEPT ![t].pipe = id]
    /\ Goto(t, "process")
    /\ UNCHANGED <<soloVars, selfProc, held, used, tout, trecvd, procs>>

\* self.__process = Process(target=_target, args=(..., self.__child_conn,
\* ...)) and the daemon flag: the child gets the write end self refers to now.
T_Process(t) ==
    /\ tpc[t] = "process"
    /\ LET id == NewObj(procs) IN
        /\ procs' = [procs EXCEPT ![id] = [made |-> TRUE, state |-> "created",
                                          conn |-> selfPipe, caller |-> t,
                                          step |-> "begin"]]
        /\ selfProc' = id
        /\ own' = [own EXCEPT ![t].proc = id]
    /\ Goto(t, "start")
    /\ UNCHANGED <<soloVars, selfPipe, held, used, tout, trecvd, chans>>

\* self.__process.start(), which raises AssertionError for a process that
\* was started before; then the thread enters recv() or poll().
T_Start(t) ==
    /\ tpc[t] = "start"
    /\ IF procs[selfProc].state = "created"
          THEN /\ procs' = [procs EXCEPT ![selfProc].state = "running"]
               /\ held' = [held EXCEPT ![t].pipe = selfPipe]
               /\ Use(t, {<<"pipe", selfPipe>>})
               /\ Goto(t, IF dec_hard_timeout THEN "poll" ELSE "wait_started")
               /\ tout' = tout
          ELSE /\ Fail(t, "AssertionError")
               /\ Goto(t, "done")
               /\ UNCHANGED <<procs, held, used>>
    /\ UNCHANGED <<soloVars, selfPipe, selfProc, own, trecvd, chans>>

\* wait_until_process_started: the recv() returns; the thread enters poll().
T_WaitStarted(t) ==
    /\ tpc[t] = "wait_started"
    /\ chans[held[t].pipe].readOpen
    /\ chans[held[t].pipe].buf # <<>>
    /\ chans' = [chans EXCEPT ![held[t].pipe].buf = Tail(@)]
    /\ held' = [held EXCEPT ![t].pipe = selfPipe]
    /\ Use(t, {<<"pipe", selfPipe>>})
    /\ Goto(t, "poll")
    /\ UNCHANGED <<soloVars, selfPipe, selfProc, own, tout, trecvd, procs>>

\* poll(self.dec_timeout) is true; value begins with recv().
T_PollReady(t) ==
    /\ tpc[t] = "poll"
    /\ chans[held[t].pipe].readOpen
    /\ chans[held[t].pipe].buf # <<>>
    /\ held' = [held EXCEPT ![t].pipe = selfPipe]
    /\ Use(t, {<<"pipe", selfPipe>>})
    /\ Goto(t, "value_recv")
    /\ UNCHANGED <<soloVars, selfPipe, selfProc, own, tout, trecvd, chans, procs>>

\* poll(self.dec_timeout) is false: self.cancel()
T_PollExpired(t) ==
    /\ tpc[t] = "poll"
    /\ dec_timeout # NoBudget
    /\ chans[held[t].pipe].readOpen
    /\ chans[held[t].pipe].buf = <<>>
    /\ Goto(t, "cancel")
    /\ UNCHANGED <<soloVars, selfPipe, selfProc, own, held, used, tout, trecvd,
                   chans, procs>>

\* recv() and poll() on a connection that has been closed raise OSError.
T_Closed(t) ==
    /\ tpc[t] \in {"wait_started", "poll", "value_recv"}
    /\ ~chans[held[t].pipe].readOpen
    /\ Fail(t, "OSError")
    /\ Goto(t, "done")
    /\ UNCHANGED <<soloVars, selfPipe, selfProc, own, held, used, trecvd, chans, procs>>

\* value: exception_occured, result = self.__parent_conn.recv(); the thread
\* enters join().
T_ValueRecv(t) ==
    /\ tpc[t] = "value_recv"
    /\ chans[held[t].pipe].readOpen
    /\ chans[held[t].pipe].buf # <<>>
    /\ chans' = [chans EXCEPT ![held[t].pipe].buf = Tail(@)]
    /\ IF Loads(Head(chans[held[t].pipe].buf)).kind = "outcome"
          THEN /\ trecvd' = [trecvd EXCEPT ![t] = Loads(Head(chans[held[t].pipe].buf))]
               /\ held' = [held EXCEPT ![t].proc = selfProc]
               /\ Use(t, {<<"proc", selfProc>>})
               /\ Goto(t, "value_join")
               /\ tout' = tout
          ELSE /\ Fail(t, "ValueError")
               /\ Goto(t, "done")
               /\ UNCHANGED <<trecvd, held, used>>
    /\ UNCHANGED <<soloVars, selfPipe, selfProc, own, procs>>

\* join(timeout=1.0) returns; for a process never started it raises
\* AssertionError.
T_Join(t, next) ==
    /\ IF procs[held[t].proc].state = "created"
          THEN Fail(t, "AssertionError") /\ Goto(t, "done")
          ELSE tout' = tout /\ Goto(t, next)
    /\ UNCHANGED <<soloVars, selfPipe, selfProc, own, held, used, trecvd, chans, procs>>

T_ValueJoin(t) == tpc[t] = "value_join" /\ T_Join(t, "value_close")

\* self.__parent_conn.close()
T_Close(t, next) ==
    /\ chans' = [chans EXCEPT ![selfPipe].readOpen = FALSE]
    /\ Use(t, {<<"pipe", selfPipe>>})
    /\ Goto(t, next)
    /\ UNCHANGED <<soloVars, selfPipe, selfProc, own, held, tout, trecvd, procs>>

T_ValueClose(t) == tpc[t] = "value_close" /\ T_Close(t, "value_result")

\* value: raise result if exception_occured else return result
T_ValueResult(t) ==
    /\ tpc[t] = "value_result"
    /\ tout' = [tout EXCEPT ![t] = ValueOutcome(trecvd[t])]
    /\ Goto(t, "done")
    /\ UNCHANGED <<soloVars, selfPipe, selfProc, own, held, used, trecvd, chans, procs>>

\* cancel: if self.__process.is_alive(): self.__process.terminate(); the
\* thread enters join().
T_CancelTerminate(t) ==
    /\ tpc[t] = "cancel"
    /\ procs' = IF procs[selfProc].state = "running"
                   THEN [procs EXCEPT ![selfProc].state = "killed"]
                   ELSE procs
    /\ held' = [held EXCEPT ![t].proc = selfProc]
    /\ Use(t, {<<"proc", selfProc>>})
    /\ Goto(t, "cancel_join")
    /\ UNCHANGED <<soloVars, selfPipe, selfProc, own, tout, trecvd, chans>>

T_CancelJoin(t) == tpc[t] = "cancel_join" /\ T_Join(t, "cancel_close")

T_CancelClose(t) == tpc[t] = "cancel_close" /\ T_Close(t, "cancel_raise")

\* cancel: raise_exception(self.timeout_exception, self.exception_message)
T_CancelRaise(t) ==
    /\ tpc[t] = "cancel_raise"
    /\ tout' = [tout EXCEPT ![t] = raise_exception(timeout_exception, exception_message)]
    /\ Goto(t, "done")
    /\ UNCHANGED <<soloVars, selfPipe, selfProc, own, held, used, trecvd, chans, procs>>

\* child_conn.send(...) of child p: the message goes into the pipe the child
\* was given; with the read end closed the send fails and the failure ends
\* the child.
P_Send(p, msgs, step) ==
    /\ IF chans[procs[p].conn].readOpen
          THEN /\ chans' = [chans EXCEPT ![procs[p].conn].buf = @ \o msgs]
               /\ procs' = [procs EXCEPT ![p].step = step,
                                         ![p].state = IF step = "end" THEN "exited" ELSE @]
          ELSE /\ chans' = chans
               /\ procs' = [procs EXCEPT ![p].step = "end", ![p].state = "exited"]
    /\ UNCHANGED <<soloVars, tpc, selfPipe, selfProc, own, held, used, tout, trecvd>>

\* _target up to the call of the function, in child p.
P_TargetStart(p) ==
    /\ procs[p].state = "running"
    /\ procs[p].step = "begin"
    /\ P_Send(p, TargetStartMsgs(dec_hard_timeout), "compute")

\* The function returns the name of the thread that called; _target sends
\* the Outcome Message and ends.
P_TargetFinish(p) ==
    /\ procs[p].state = "running"
    /\ procs[p].step = "compute"
    /\ P_Send(p, TargetOutcomeMsgs([type |-> "return", val |-> Value("str", procs[p].caller)]),
              "end")

NextThreads ==
    \/ \E t \in Threads : T_Pipe(t)
    \/ \E t \in Threads : T_Process(t)
    \/ \E t \in Threads : T_Start(t)
    \/ \E t \in Threads : T_WaitStarted(t)
    \/ \E t \in Threads : T_PollReady(t)
    \/ \E t \in Threads : T_PollExpired(t)
    \/ \E t \in Threads : T_Closed(t)
    \/ \E t \in Threads : T_ValueRecv(t)
    \/ \E t \in Threads : T_ValueJoin(t)
    \/ \E t \in Threads : T_ValueClose(t)
    \/ \E t \in Threads : T_ValueResult(t)
    \/ \E t \in Threads : T_CancelTerminate(t)
    \/ \E t \in Threads : T_CancelJoin(t)
    \/ \E t \in Threads : T_CancelClose(t)
    \/ \E t \in Threads : T_CancelRaise(t)
    \/ \E p \in ObjIds : P_TargetStart(p)
    \/ \E p \in ObjIds : P_TargetFinish(p)

SpecThreads == Init /\ [][NextThreads]_vars

\* ------------------------------------------------------------------ claims
\* The configured timeout failure, as the caller of __call__ sees it.
TimeoutFailure == [tag |-> "timeout", val |-> Exc(timeout_exception, exception_message)]
\* The Outcome Message (flag, payload) the child has written, if any.
OutcomeSent == {i \in 1..Len(sent) : Loads(sent[i]).kind = "outcome"}
\* The invocation has given its caller a result or a failure.
Finished == pc = "done"

\* C1 (as stated): whenever the function returns a value v and poll found
\* the Outcome Message in time, __call__ returns v.  Refuted by a value
\* that cannot be pickled: the message then carries the pickling failure.
C1_AnyValueReturned ==
    (Finished /\ polled = "ready" /\ function.type = "return")
        => outcome = Returned(function.val)

\* C1 (amended): in both modes, whenever the function returns a value v
\* that can be pickled and poll found the Outcome Message before the budget
\* ran out, __call__ does not enter cancel and returns exactly v: it does
\* not raise and returns neither None nor the Start Signal.
C1_ValueReturned ==
    (polled = "ready" /\ function.type = "return" /\ Picklable(function.val))
        => /\ pc \notin CancelPcs
           /\ Finished => outcome = Returned(function.val)

C1_Witness ==
    /\ Finished
    /\ ~dec_hard_timeout
    /\ dec_timeout = 2
    /\ duration = 1
    /\ outcome = Returned(Value("str", "ok"))

\* C2: when poll(dec_timeout) runs out with nothing to read, the only thing
\* __call__ does next is cancel(), and from cancel() the only way out is the
\* configured timeout failure (configured exception and message); no value
\* is returned on that path.
C2_TimeoutRaised ==
    [][ /\ (pc = "poll" /\ pipe = <<>> /\ pc' # pc) => pc' = "cancel"
        /\ (pc \in CancelPcs /\ pc' # pc) =>
               \/ pc' \in CancelPcs
               \/ pc' = "done" /\ outcome' = TimeoutFailure
        /\ (polled' = "expired" /\ pc' = "done") => outcome' = TimeoutFailure ]_vars

C2_Witness ==
    /\ Finished
    /\ polled = "expired"
    /\ dec_timeout > 0
    /\ fnStarted
    /\ sent \in {<<>>, <<Dumps(StartedMsg)>>}
    /\ outcome = TimeoutFailure

\* C3: whenever the function raises e and poll found the child's Outcome
\* Message in time, __call__ does not enter cancel and re-raises the failure
\* carried in that message (flag true, same class and argument as e); it
\* does not raise the configured timeout failure.
C3_FailureReraised ==
    (polled = "ready" /\ function.type = "raise")
        => /\ pc \notin CancelPcs
           /\ \A i \in OutcomeSent : Loads(sent[i]).exc
           /\ Finished =>
                /\ outcome.tag = "raised"
                /\ \E i \in OutcomeSent : outcome.val = Loads(sent[i]).val
                /\ outcome.val.cls = function.val.cls
                /\ outcome.val.arg = function.val.arg

C3_Witness ==
    /\ Finished
    /\ function.type = "raise"
    /\ dec_timeout > 0
    /\ outcome.tag = "raised"
    /\ outcome.val.cls = "ValueError"

\* C4: whenever __call__ has raised the timeout failure (here: after a
\* positive budget ran out), the child of that invocation is dead and has
\* been reaped by the join.
C4_ChildReapedAfterTimeout ==
    (Finished /\ dec_timeout > 0 /\ outcome.tag = "timeout") => process = "reaped"

\* C5: in hard mode no Start Signal is awaited and the budget runs from
\* start(): when the child needs longer than the budget to reach _target,
\* the function is never called, value is never read, and __call__ ends
\* with the configured timeout failure.
C5_HardChargesStartup ==
    dec_hard_timeout =>
        /\ pc # "wait_started"
        /\ \A i \in 1..Len(sent) : Loads(sent[i]).kind # "started"
        /\ (dec_timeout # NoBudget /\ startDelay > dec_timeout) =>
               /\ ~fnStarted
               /\ pc \notin ValuePcs
               /\ Finished => outcome = TimeoutFailure

C5_Witness ==
    /\ Finished
    /\ dec_hard_timeout
    /\ dec_timeout = 1
    /\ startDelay = 2
    /\ terminated
    /\ ~fnStarted
    /\ outcome = TimeoutFailure

\* C6: in soft mode the budget runs only from the receipt of the Start
\* Signal: whatever the startup delay, an invocation whose function finishes
\* (its Outcome Message is written) in less than the budget never times out,
\* and a value the function returned is what __call__ returns.
C6_SoftExcludesStartup ==
    (/\ ~dec_hard_timeout
     /\ dec_timeout > 0
     /\ OutcomeSent # {}
     /\ duration < dec_timeout)
        => /\ pc \notin CancelPcs
           /\ polled # "expired"
           /\ Finished =>
                /\ outcome.tag \in {"returned", "raised"}
                /\ (function.type = "return" /\ Picklable(function.val))
                       => outcome = Returned(function.val)

C6_Witness ==
    /\ Finished
    /\ ~dec_hard_timeout
    /\ dec_timeout = 1
    /\ startDelay = 2
    /\ duration = 0
    /\ outcome = Returned(Value("str", "ok"))

\* C7: with dec_timeout 0 or None, __call__ never takes the timeout path.
C7_DisabledNeverTimesOut ==
    dec_timeout \in {0, NoBudget}
        => pc \notin CancelPcs /\ outcome.tag # "timeout"

\* Children that are alive or not reaped: the current one and older ones.
Unreaped == orphans + (IF process \in Alive \cup {"zombie"} THEN 1 ELSE 0)

\* C8: the number of children alive or unreaped is zero between calls and
\* never more than one during a call (here: for a budget that is not zero).
C8_NoLeftoverChildren ==
    dec_timeout # 0 =>
        /\ Unreaped <= 1
        /\ pc \in {"idle", "done"} => Unreaped = 0

\* C9: when the child has exited without ever sending a message, __call__
\* reports the closed channel (EOFError), not the timeout failure and not a
\* failure of the function (here: for a budget that is not zero).
C9_ClosureSurfaced ==
    (/\ Finished
     /\ dec_timeout # 0
     /\ sent = <<>>
     /\ ~terminated
     /\ process \in {"zombie", "reaped"})
        => outcome.tag = "EOFError"

\* C10: cancel(), entered while the parent waits for the Start Signal or in
\* poll, consumes no message, calls terminate() on a child that is alive,
\* then join, then closes the read end, and leaves only by raising the
\* configured timeout failure.
C10_CancelRaises ==
    [][ /\ (pc \in CancelPcs) => consumed' = consumed /\ recvd' = recvd
        /\ (pc = "cancel" /\ pc' # pc) =>
               /\ pc' = "cancel_join"
               /\ process \in Alive => process' = "terminating" /\ terminated'
        /\ (pc = "cancel_join" /\ pc' # pc) => pc' = "cancel_close"
        /\ (pc = "cancel_close" /\ pc' # pc) =>
               pc' = "cancel_raise" /\ parent_conn' = "closed"
        /\ (pc = "cancel_raise" /\ pc' # pc) =>
               /\ pc' = "done"
               /\ outcome' = TimeoutFailure
               /\ parent_conn = "closed" ]_vars

C10_Witness ==
    /\ Finished
    /\ ~dec_hard_timeout
    /\ consumed = <<>>
    /\ polled = "none"
    /\ terminated
    /\ parent_conn = "closed"
    /\ outcome = TimeoutFailure

\* C11: whenever __call__ has returned a value, re-raised a failure or
\* raised the timeout failure, the parent has closed both its read end and
\* its own handle on the write end.
C11_BothEndsClosed ==
    (Finished /\ outcome.tag \in {"returned", "raised", "timeout"})
        => parent_conn = "closed" /\ child_conn = "closed"

\* C12: the steps of an invocation are ordered.  On the timeout path
\* terminate comes before join and join before the close of the read end;
\* on the completion path the receive of the Outcome Message comes before
\* join and join before the close; the read end is closed only there, and
\* __call__ never returns or raises with its read end still open.
C12_Ordered ==
    [][ /\ (pc' = "cancel_join" /\ pc' # pc) =>
               pc = "cancel" /\ process' \notin {"starting", "computing", "exiting"}
        /\ (pc' = "cancel_close" /\ pc' # pc) =>
               pc = "cancel_join" /\ parent_conn' = "open"
        /\ (pc' = "value_join" /\ pc' # pc) =>
               /\ pc = "value_recv"
               /\ recvd'.kind = "outcome"
               /\ consumed' = Append(consumed, recvd')
        /\ (pc' = "value_close" /\ pc' # pc) =>
               pc = "value_join" /\ parent_conn' = "open"
        /\ (parent_conn = "open" /\ parent_conn' = "closed") =>
               pc \in {"cancel_close", "value_close"}
        /\ (pc' = "done" /\ pc' # pc) => parent_conn = "closed" ]_vars

C12_Witness ==
    /\ Finished
    /\ terminated
    /\ ~joinTimedOut
    /\ process = "reaped"
    /\ parent_conn = "closed"

\* C13: once poll has run out with nothing to read, the parent consumes no
\* Outcome Message in that invocation, also when the child writes one
\* before it is terminated: the message stays in the pipe and the
\* invocation ends with the configured timeout failure.
C13_TimeoutWins ==
    polled = "expired" =>
        /\ \A i \in 1..Len(consumed) : consumed[i].kind # "outcome"
        /\ recvd = NoMsg
        /\ pc \in CancelPcs \cup {"done"}
        /\ Finished => outcome = TimeoutFailure

C13_Witness ==
    /\ Finished
    /\ polled = "expired"
    /\ dec_timeout > 0
    /\ OutcomeSent # {}
    /\ pipe # <<>>
    /\ outcome = TimeoutFailure

\* C14: a child that has run _target to its end (it was not killed) has
\* written exactly one Outcome Message, and no child ever writes two.
C14_OneOutcomeMessage ==
    /\ Cardinality(OutcomeSent) <= 1
    /\ process = "exiting" => Cardinality(OutcomeSent) = 1

\* C15: the child writes the Start Signal exactly when the hard flag is
\* false; it is then the first thing written, before the function is called
\* and before the Outcome Message, and it is written once.
C15_StartSignalFirst ==
    /\ dec_hard_timeout => \A i \in 1..Len(sent) : Loads(sent[i]).kind # "started"
    /\ (~dec_hard_timeout /\ fnStarted) =>
           Len(sent) >= 1 /\ Loads(sent[1]) = StartedMsg
    /\ \A i \in 2..Len(sent) : Loads(sent[i]).kind = "outcome"
    /\ ~fnStarted => sent = <<>>

C15_Witness ==
    /\ ~dec_hard_timeout
    /\ Len(sent) = 2
    /\ Loads(sent[1]).kind = "started"
    /\ Loads(sent[2]).kind = "outcome"

\* C17: an invocation with a finite positive budget always ends.  Stated on
\* finite runs: while such an invocation is under way some step of the
\* parent, of the child or of the clock can still change the state; a state
\* where none can is an invocation that never returns and never raises.
C17_InvocationEnds ==
    (dec_timeout > 0 /\ pc \notin {"idle", "done"}) => ENABLED <<Next>>_vars

\* C18: parent and child use the same protocol variant.  What
\* wait_until_process_started consumes is the Start Signal, what value
\* receives is an Outcome pair (its unpacking never fails), and the parent
\* consumes nothing anywhere else.
C18_VariantsAgree ==
    [][ /\ (consumed' # consumed /\ pc \notin {"idle", "done"}) =>
               /\ pc \in {"wait_started", "value_recv"}
               /\ Len(consumed') = Len(consumed) + 1
        /\ (pc = "wait_started" /\ consumed' # consumed) =>
               ~dec_hard_timeout /\ consumed'[Len(consumed')] = StartedMsg
        /\ (pc = "value_recv" /\ consumed' # consumed) =>
               /\ consumed'[Len(consumed')].kind = "outcome"
               /\ recvd' = consumed'[Len(consumed')]
               /\ outcome'.tag # "ValueError"
        /\ (pc = "poll" /\ pc' = "value_recv") =>
               Loads(Head(pipe)).kind = "outcome" ]_vars

C18_Witness ==
    /\ ~dec_hard_timeout
    /\ Finished
    /\ Len(consumed) = 2
    /\ consumed[1] = StartedMsg
    /\ consumed[2] = recvd
    /\ recvd.kind = "outcome"
    /\ outcome.tag \in {"returned", "raised"}

\* Outcome Messages the parent has consumed in this invocation.
OutcomeConsumed == {i \in 1..Len(consumed) : consumed[i].kind = "outcome"}

\* C16: every invocation makes one new channel and one new child, neither
\* of them one that an earlier invocation used, and keeps them to its end;
\* an invocation that ends without a timeout has consumed exactly one
\* Outcome Message, and what it consumed is what its own child wrote.
C16_FreshChannelAndChild ==
    [][ /\ (pc \in {"idle", "done"} /\ pc' # pc) =>
               /\ pipeId' = pipeId + 1
               /\ procId' = procId + 1
               /\ pipe' = <<>> /\ sent' = <<>> /\ consumed' = <<>>
               /\ parent_conn' = "open"
               /\ process' = "created"
        /\ pc \notin {"idle", "done"} => pipeId' = pipeId /\ procId' = procId
        /\ (pc' = "done" /\ pc' # pc /\ outcome'.tag \in {"returned", "raised"}) =>
               /\ Cardinality(OutcomeConsumed') = 1
               /\ Len(consumed') <= Len(sent')
               /\ \A i \in 1..Len(consumed') : consumed'[i] = Loads(sent'[i]) ]_vars

C16_Witness ==
    /\ Finished
    /\ pipeId = 2 /\ procId = 2
    /\ outcome.tag = "returned"
    /\ Cardinality(OutcomeConsumed) = 1

\* C20: the daemon flag of the child is set unless the interpreter is older
\* than 3.0, the system is Windows and the caller is not the main thread,
\* all three; it is decided before start() and start() and everything
\* after it leave it as it is.
C20_DaemonFlag ==
    [][ /\ pc' = "start" =>
               /\ env' \in Envs
               /\ process' = "created"
               /\ daemon' = ~(env'[1] /\ env'[2] /\ ~env'[3])
        /\ daemon' # daemon => pc \in {"idle", "done", "daemon"}
        /\ (pc = "start" /\ pc' # pc) => process' = "starting" ]_vars

C20_Witness ==
    /\ pc = "start"
    /\ process = "created"
    /\ env = <<TRUE, TRUE, FALSE>>
    /\ ~daemon

\* C19: when two threads call the same Timeout object and their
\* invocations overlap, each one polls, receives from, joins, terminates
\* and closes only the pipe and the child it created itself, and a value
\* it returns is the result of its own call.
C19_OwnChannelAndChild ==
    \A t \in Threads :
        /\ used[t] \subseteq {<<"pipe", own[t].pipe>>, <<"proc", own[t].proc>>}
        /\ tout[t].tag = "returned" => tout[t].val = Value("str", t)
====
